---------------------------- MODULE Spec2Model ----------------------------
(***************************************************************************)
(* Model of the DeepSeek tagger plugin (src/index.js): the three slash     *)
(* commands /tags, /tagpage and /tagselect, the call to the chat API, the  *)
(* parsing of its reply and the placement of the tags in the page tree.    *)
(*                                                                         *)
(* A string is a sequence of one-character strings.  Every `await` of the  *)
(* source is a suspension point: an action runs a handler from one         *)
(* suspension point to the next.                                           *)
(***************************************************************************)
EXTENDS Integers, Sequences, FiniteSets, TLC

(***************************************************************************)
(* Bounds of the model.                                                    *)
(***************************************************************************)
\* number of command invocations that may be in flight or have run
MaxInv == 2
\* longest enumerated API reply (SpecNorm enumerates every reply up to it)
MaxLen == 4

\* index.js:198
MAX_CONTENT_LENGTH == 15000

(***************************************************************************)
(* Strings.                                                                *)
(***************************************************************************)
Min(S) == CHOOSE x \in S : \A y \in S : x <= y
Max(S) == CHOOSE x \in S : \A y \in S : x >= y
Range(s) == {s[k] : k \in 1..Len(s)}

\* String.prototype.toUpperCase, one character
UpperChar(c) ==
  CASE c = "a" -> "A" [] c = "b" -> "B" [] c = "c" -> "C" [] c = "d" -> "D"
    [] c = "e" -> "E" [] c = "f" -> "F" [] c = "g" -> "G" [] c = "h" -> "H"
    [] c = "i" -> "I" [] c = "j" -> "J" [] c = "k" -> "K" [] c = "l" -> "L"
    [] c = "m" -> "M" [] c = "n" -> "N" [] c = "o" -> "O" [] c = "p" -> "P"
    [] c = "q" -> "Q" [] c = "r" -> "R" [] c = "s" -> "S" [] c = "t" -> "T"
    [] c = "u" -> "U" [] c = "v" -> "V" [] c = "w" -> "W" [] c = "x" -> "X"
    [] c = "y" -> "Y" [] c = "z" -> "Z" [] OTHER -> c

toUpperCase(s) == [k \in 1..Len(s) |-> UpperChar(s[k])]

IsSpace(c) == c \in {" ", "\n", "\t"}

\* String.prototype.trim
trim(s) ==
  LET keep == {k \in 1..Len(s) : ~IsSpace(s[k])}
  IN  IF keep = {} THEN <<>> ELSE SubSeq(s, Min(keep), Max(keep))

startsWith(s, p) == Len(s) >= Len(p) /\ SubSeq(s, 1, Len(p)) = p

\* String.prototype.split with a one-character separator
RECURSIVE split(_, _)
split(s, sep) ==
  LET at == {k \in 1..Len(s) : s[k] = sep}
  IN  IF at = {} THEN <<s>>
      ELSE <<SubSeq(s, 1, Min(at) - 1)>> \o split(SubSeq(s, Min(at) + 1, Len(s)), sep)

\* Array.prototype.join
RECURSIVE join(_, _)
join(arr, sep) ==
  IF arr = <<>> THEN <<>>
  ELSE IF Len(arr) = 1 THEN arr[1]
  ELSE arr[1] \o sep \o join(Tail(arr), sep)

\* the map without its trim()
UpperAllNoTrim(arr) == [k \in 1..Len(arr) |-> toUpperCase(arr[k])]

\* Array.prototype.map(tag => tag.trim().toUpperCase())
TrimUpperAll(arr) == [k \in 1..Len(arr) |-> toUpperCase(trim(arr[k]))]

\* Array.prototype.filter(tag => tag.length > 0)
NonEmptyOnly(arr) == SelectSeq(arr, LAMBDA t : Len(t) > 0)

\* the array spread without the Set
SpreadNoSet(arr) == arr

\* [...new Set(arr)]: the values in the order of their first insertion
RECURSIVE SetSpread(_)
SetSpread(arr) ==
  IF arr = <<>> THEN <<>>
  ELSE LET init == SetSpread(SubSeq(arr, 1, Len(arr) - 1))
           last == arr[Len(arr)]
       IN  IF last \in Range(init) THEN init ELSE Append(init, last)

IsQuote(c) == c \in {"\"", "'"}

\* suggestedTagsString.replace(/^["']|["']$/g, "")
StripQuotes(s) ==
  LET a == IF Len(s) > 0 /\ IsQuote(s[1]) THEN Tail(s) ELSE s
  IN  IF Len(a) > 0 /\ IsQuote(a[Len(a)]) THEN SubSeq(a, 1, Len(a) - 1) ELSE a

\* index.js:59-63: the reply text to the array fetchTagsFromDeepSeek returns
ParseTags(content) ==
  NonEmptyOnly(TrimUpperAll(split(StripQuotes(trim(content)), ",")))

\* index.js:100, 207, 257
UniqueTags(tagsArray) == NonEmptyOnly(SetSpread(TrimUpperAll(tagsArray)))

CommaSpace == <<",", " ">>

\* index.js:105, 211, 261
TagsString(uniqueTags) == join(uniqueTags, CommaSpace)

\* the whole normalisation of a reply: parse, then the handlers' clean-up
Normalize(content) == UniqueTags(ParseTags(content))


(***************************************************************************)
(* Content extraction.                                                     *)
(***************************************************************************)
NL == "\n"
PropertyMark == <<":", ":">>
TagsPrefixUpper == <<"T", "A", "G", "S", ":", ":">>

\* line.trim().match(/^.+::/): "::" preceded by at least one character
IsPropertyLine(line) ==
  LET t == trim(line)
  IN  \E k \in 2..(Len(t) - 1) : SubSeq(t, k, k + 1) = PropertyMark

\* line.trim().toUpperCase().startsWith("TAGS::")
IsTagsLine(line) == startsWith(toUpperCase(trim(line)), TagsPrefixUpper)

\* the text of a block with its property lines left in
BlockContentUnfiltered(content) == trim(content)

\* index.js:138: the text of a block without its property lines
BlockContentForAI(content) ==
  trim(join(SelectSeq(split(content, NL), LAMBDA l : ~IsPropertyLine(l)), <<NL>>))

\* index.js:177-180: the lines of one top-level block kept for the page
RelevantContent(content) ==
  join(SelectSeq(split(content, NL),
                 LAMBDA l : ~IsPropertyLine(l) /\ ~IsTagsLine(l)), <<NL>>)

\* index.js:174-191: extractContent over the top-level blocks only
RECURSIVE extractContent(_)
extractContent(blocks) ==
  IF blocks = <<>> THEN <<>>
  ELSE LET block == blocks[1]
           rel == IF block.content # <<>> THEN RelevantContent(block.content) ELSE <<>>
       IN  (IF trim(rel) # <<>> THEN trim(rel) \o <<NL, NL>> ELSE <<>>)
             \o extractContent(Tail(blocks))

TruncationMark == <<NL, "[", ".", ".", ".", "]">>

\* index.js:192-202: trimmed and cut to MAX_CONTENT_LENGTH
PageContent(blocks) ==
  LET c == trim(extractContent(blocks))
  IN  IF Len(c) > MAX_CONTENT_LENGTH
      THEN SubSeq(c, 1, MAX_CONTENT_LENGTH) \o TruncationMark
      ELSE c

(***************************************************************************)
(* The page tree of the host.  A top-level block is                        *)
(* [uuid, content, children]; a child is [uuid, content].  uuid 0 is the   *)
(* identifier of no block.                                                 *)
(***************************************************************************)
NoBlock == 0

TagsLabel == <<"t", "a", "g", "s", ":", ":", " ">>
PageTagsLabel == <<"P", "a", "g", "e", " ">> \o <<"T", "a", "g", "s", ":", ":", " ">>
SelectionTagsLabel ==
  <<"S", "e", "l", "e", "c", "t", "i", "o", "n", " ">> \o <<"T", "a", "g", "s", ":", ":", " ">>

\* logseq.Editor.getBlock(uuid, {includeChildren}): the block, or none
HasBlock(tree, uuid) == \E k \in 1..Len(tree) : tree[k].uuid = uuid
GetBlock(tree, uuid) == tree[CHOOSE k \in 1..Len(tree) : tree[k].uuid = uuid]

\* index.js:110-114: children.find(child => child.content && ...startsWith("TAGS::"))
IsTagsChild(child) ==
  child.content # <<>> /\ startsWith(toUpperCase(child.content), TagsPrefixUpper)

\* a search that never finds the tags child
FindNoTagsChild(children) == NoBlock

FindTagsChild(children) ==
  LET hits == {k \in 1..Len(children) : IsTagsChild(children[k])}
  IN  IF hits = {} THEN NoBlock ELSE children[Min(hits)].uuid

\* logseq.Editor.updateBlock(uuid, content) on a child block
UpdateBlock(tree, uuid, content) ==
  [k \in 1..Len(tree) |->
     [tree[k] EXCEPT !.children =
        [c \in 1..Len(@) |-> IF @[c].uuid = uuid
                               THEN [@[c] EXCEPT !.content = content]
                               ELSE @[c]]]]

\* an insertion that replaces the children of the parent
InsertOnlyChild(tree, parent, new, content) ==
  [k \in 1..Len(tree) |->
     IF tree[k].uuid = parent
     THEN [tree[k] EXCEPT !.children = <<[uuid |-> new, content |-> content]>>]
     ELSE tree[k]]

\* logseq.Editor.insertBlock(parent, content, {sibling: false, before: false})
InsertChild(tree, parent, new, content) ==
  [k \in 1..Len(tree) |->
     IF tree[k].uuid = parent
     THEN [tree[k] EXCEPT !.children = Append(@, [uuid |-> new, content |-> content])]
     ELSE tree[k]]

\* logseq.Editor.insertBlock(after, content, {sibling: true, before: false})
InsertSibling(tree, after, new, content) ==
  LET at == CHOOSE k \in 1..Len(tree) : tree[k].uuid = after
      blk == [uuid |-> new, content |-> content, children |-> <<>>]
  IN  SubSeq(tree, 1, at) \o <<blk>> \o SubSeq(tree, at + 1, Len(tree))

\* logseq.Editor.insertBatchBlock([{pageName, content}], {sibling: false})
InsertUnderPage(tree, new, content) ==
  Append(tree, [uuid |-> new, content |-> content, children |-> <<>>])


FreshUuid(tree) ==
  1 + Max({NoBlock} \cup {tree[k].uuid : k \in 1..Len(tree)}
            \cup UNION {{tree[k].children[c].uuid : c \in 1..Len(tree[k].children)}
                          : k \in 1..Len(tree)})

(***************************************************************************)
(* State.                                                                  *)
(***************************************************************************)
VARIABLES
  settings,   \* logseq.settings.deepseekApiKey
  pageTree,   \* the top-level blocks of the current page, with their children
  inv         \* inv[i]: the locals and the position of command invocation i

vars == <<settings, pageTree, inv>>

Procs == 1..MaxInv

Null == [isNull |-> TRUE, v |-> <<>>]
Some(x) == [isNull |-> FALSE, v |-> x]

NoRequest == [op |-> "none", uuid |-> NoBlock, content |-> <<>>]
Request(op, uuid, content) == [op |-> op, uuid |-> uuid, content |-> content]

\* what fetch() and response.json() gave
NoResponse == [kind |-> "none", type |-> "absent", text |-> <<>>]
Response(kind, type, text) == [kind |-> kind, type |-> type, text |-> text]

Msg(content, status) == [content |-> content, status |-> status]

IdleInv ==
  [pc |-> "idle", mode |-> "none", uuid |-> NoBlock, apiKey |-> <<>>,
   currentPage |-> FALSE, pageBlocks |-> <<>>, selection |-> Null,
   contentForAI |-> <<>>, response |-> NoResponse,
   allTags |-> Null, uniqueTags |-> <<>>, tagsStringForBlock |-> <<>>,
   tagsChildBlock |-> NoBlock, request |-> NoRequest,
   msgs |-> <<>>, writes |-> 0, fetches |-> 0]

\* logseq.App.showMsg(content, status)
showMsg(r, content, status) == [r EXCEPT !.msgs = Append(@, Msg(content, status))]

\* showMsg(...); return;
Finish(r, content, status) == [showMsg(r, content, status) EXCEPT !.pc = "done"]

(***************************************************************************)
(* Initial states: the credential of the settings and the page.            *)
(***************************************************************************)
Credentials == {<<>>, <<" ">>, <<"s", "k">>}

Block(uuid, content, children) ==
  [uuid |-> uuid, content |-> content, children |-> children]
Child(uuid, content) == [uuid |-> uuid, content |-> content]

TextNote == <<"a", "b">>
TextProperty == <<"d", ":", ":", " ", "1">>
TextMixed == <<"x", NL>> \o TextProperty
TextOldTags == TagsLabel \o <<"O", "L", "D">>
TextUpperTags == TagsPrefixUpper \o <<" ", "O", "L", "D">>

Pages ==
  { <<>>,
    << Block(1, TextNote, <<>>) >>,
    << Block(1, TextMixed, << Child(2, TextNote), Child(3, TextUpperTags) >>) >>,
    << Block(1, TextProperty, <<>>), Block(2, TextOldTags, <<>>) >> }

Init ==
  /\ settings \in Credentials
  /\ pageTree \in Pages
  /\ inv = [i \in Procs |-> IdleInv]

(***************************************************************************)
(* fetchTagsFromDeepSeek (index.js:11-74).                                 *)
(***************************************************************************)
\* the check without its trim()
KeyEmptyOnly(apiKey) == apiKey = <<>>

\* !apiKey || apiKey.trim() === ""
KeyMissing(apiKey) == apiKey = <<>> \/ trim(apiKey) = <<>>

\* index.js:12-34: up to the await of fetch()
FetchTagsCall(r, textContent) ==
  IF KeyMissing(r.apiKey)
  THEN Finish(r, "Veuillez configurer votre cle API DeepSeek", "error")
  ELSE [r EXCEPT !.pc = "fetch", !.fetches = @ + 1]

Failure(content, status) == [value |-> Null, msgs |-> <<Msg(content, status)>>]

\* index.js:34-73: from the outcome of fetch() to the returned value
FetchTagsResult(resp) ==
  CASE resp.kind = "reject" ->
         Failure("Erreur de connexion a DeepSeek", "error")
    [] resp.kind = "not_ok" ->
         Failure("Erreur de l'API DeepSeek", "error")
    [] resp.kind = "bad_json" ->
         Failure("Erreur de connexion a DeepSeek", "error")
    [] OTHER ->
         IF resp.type = "absent" \/ (resp.type = "string" /\ resp.text = <<>>)
         THEN Failure("Format de reponse inattendu de DeepSeek.", "warning")
         ELSE IF resp.type # "string"
         THEN Failure("Erreur de connexion a DeepSeek", "error")
         ELSE [value |-> Some(ParseTags(resp.text)), msgs |-> <<>>]

\* the locals after `await fetchTagsFromDeepSeek(...)`
Fetched(r, resp) ==
  LET res == FetchTagsResult(resp)
  IN  [r EXCEPT !.response = resp, !.allTags = res.value, !.msgs = @ \o res.msgs]

ReplyAITech == <<"A", "I", ",", " ", "T", "e", "c", "h", ",", " ", "A", "I">>
ReplyQuoted == <<"\"", "b", ",", " ", "a", ",", "B", "\"">>
ReplyNoTags == <<" ", ",">>

Replies == {ReplyAITech, ReplyQuoted, ReplyNoTags}

Responses ==
  { Response("reject", "absent", <<>>),
    Response("not_ok", "absent", <<>>),
    Response("bad_json", "absent", <<>>),
    Response("json", "absent", <<>>),
    Response("json", "string", <<>>),
    Response("json", "other", <<>>) }
  \cup {Response("json", "string", t) : t \in Replies}

Alphabet == {"a", "A", " ", ",", "\"", "'"}
ReplyStrings == UNION {[1..n -> Alphabet] : n \in 1..MaxLen}
NormResponses == Responses \cup {Response("json", "string", t) : t \in ReplyStrings}


(***************************************************************************)
(* The three command handlers, from one await to the next.                 *)
(***************************************************************************)
TopUuids(tree) == {tree[k].uuid : k \in 1..Len(tree)}

\* index.js:129-133, 157-161, 242-246: the handler up to its first await
CommandStart(r, mode, uuid, progress, firstAwait) ==
  LET r1 == showMsg([r EXCEPT !.mode = mode, !.uuid = uuid, !.apiKey = settings],
                    progress, "info")
  IN  IF KeyMissing(r1.apiKey)
      THEN Finish(r1, "Cle API DeepSeek non configuree.", "error")
      ELSE [r1 EXCEPT !.pc = firstAwait]

\* index.js:95-107: insertOrUpdateTagsChildBlock up to the await of getBlock
InsertOrUpdateCall(r) ==
  IF r.allTags.isNull \/ Len(r.allTags.v) = 0
  THEN Finish(r, "Aucun tag a inserer.", "info")
  ELSE LET uniqueTags == UniqueTags(r.allTags.v)
       IN  IF Len(uniqueTags) = 0
           THEN Finish(r, "Aucun tag valide a inserer apres nettoyage.", "info")
           ELSE [r EXCEPT !.uniqueTags = uniqueTags,
                          !.tagsStringForBlock = TagsString(uniqueTags),
                          !.pc = "getChildren"]

\* index.js:206-216, 256-264: clean-up of the tags and the insertBlock request
SiblingRequest(r, label, anchor) ==
  IF ~r.allTags.isNull /\ Len(r.allTags.v) > 0
  THEN LET uniqueTags == UniqueTags(r.allTags.v)
       IN  IF Len(uniqueTags) = 0
           THEN Finish(r, "Aucun tag valide a inserer apres nettoyage.", "info")
           ELSE [r EXCEPT !.uniqueTags = uniqueTags,
                          !.tagsStringForBlock = TagsString(uniqueTags),
                          !.request =
                             IF anchor # NoBlock
                             THEN Request("insertSibling", anchor,
                                          label \o TagsString(uniqueTags))
                             ELSE Request("insertBatchBlock", NoBlock,
                                          label \o TagsString(uniqueTags)),
                          !.pc = "write"]
  ELSE [r EXCEPT !.pc = "done"]

\* index.js:214: pageBlocks[pageBlocks.length - 1], and its uuid if it has one
LastRootUuid(pageBlocks) ==
  IF Len(pageBlocks) = 0 THEN NoBlock ELSE pageBlocks[Len(pageBlocks)].uuid

---------------------------------------------------------------------------
\* /tags, index.js:128-134
TagsCommand(i) ==
  /\ inv[i].pc = "idle"
  /\ \E uuid \in TopUuids(pageTree) \cup {NoBlock} :
       inv' = [inv EXCEPT ![i] =
                 CommandStart(inv[i], "tags", uuid,
                              "Generation des tags pour le bloc...", "getBlock")]
  /\ UNCHANGED <<settings, pageTree>>

\* /tags, index.js:134-142: currentBlock is read, its content filtered, the API called
TagsGotBlock(i) ==
  /\ inv[i].pc = "getBlock"
  /\ inv' = [inv EXCEPT ![i] =
       IF ~HasBlock(pageTree, inv[i].uuid)
       THEN Finish(inv[i], "Impossible d'obtenir le bloc actuel.", "warning")
       ELSE LET contentForAI == BlockContentForAI(GetBlock(pageTree, inv[i].uuid).content)
                r == [inv[i] EXCEPT !.contentForAI = contentForAI]
            IN  IF contentForAI = <<>>
                THEN Finish(r, "Le bloc est vide (ou ne contient que des proprietes).",
                            "warning")
                ELSE FetchTagsCall(r, contentForAI)]
  /\ UNCHANGED <<settings, pageTree>>

\* /tags, index.js:142-148 with 95-107
TagsFetched(i, R) ==
  /\ inv[i].pc = "fetch" /\ inv[i].mode = "tags"
  /\ \E resp \in R :
       inv' = [inv EXCEPT ![i] =
                 LET r == Fetched(inv[i], resp)
                 IN  IF ~r.allTags.isNull
                     THEN InsertOrUpdateCall(r)
                     ELSE [r EXCEPT !.pc = "done"]]
  /\ UNCHANGED <<settings, pageTree>>

\* /tags, index.js:107-120: the children are read and the write is requested
TagsGotChildren(i) ==
  /\ inv[i].pc = "getChildren"
  /\ inv' = [inv EXCEPT ![i] =
       LET tagsChildBlock ==
             IF HasBlock(pageTree, inv[i].uuid)
             THEN FindTagsChild(GetBlock(pageTree, inv[i].uuid).children)
             ELSE NoBlock
           text == TagsLabel \o inv[i].tagsStringForBlock
       IN  [inv[i] EXCEPT !.tagsChildBlock = tagsChildBlock,
                          !.request = IF tagsChildBlock # NoBlock
                                      THEN Request("updateBlock", tagsChildBlock, text)
                                      ELSE Request("insertChild", inv[i].uuid, text),
                          !.pc = "write"]]
  /\ UNCHANGED <<settings, pageTree>>

\* /tagpage, index.js:156-163
TagpageCommand(i) ==
  /\ inv[i].pc = "idle"
  /\ inv' = [inv EXCEPT ![i] =
               CommandStart(inv[i], "tagpage", NoBlock,
                            "Generation des tags pour la page...", "getCurrentPage")]
  /\ UNCHANGED <<settings, pageTree>>

\* /tagpage, index.js:163-168: the current page, if the host has one
TagpageGotPage(i) ==
  /\ inv[i].pc = "getCurrentPage"
  /\ \E currentPage \in BOOLEAN :
       inv' = [inv EXCEPT ![i] =
                 IF ~currentPage
                 THEN Finish(inv[i], "Impossible de determiner la page actuelle.",
                             "warning")
                 ELSE [inv[i] EXCEPT !.currentPage = TRUE, !.pc = "getPageBlocksTree"]]
  /\ UNCHANGED <<settings, pageTree>>

\* /tagpage, index.js:168-204: the tree is read, its content extracted, the API called
TagpageGotTree(i) ==
  /\ inv[i].pc = "getPageBlocksTree"
  /\ inv' = [inv EXCEPT ![i] =
       LET r == [inv[i] EXCEPT !.pageBlocks = pageTree]
       IN  IF Len(pageTree) = 0
           THEN Finish(r, "La page est vide ou n'a pas de blocs.", "info")
           ELSE LET pageContent == PageContent(pageTree)
                    r1 == [r EXCEPT !.contentForAI = pageContent]
                IN  IF pageContent = <<>>
                    THEN Finish(r1, "Aucun contenu textuel pertinent trouve sur la page.",
                                "info")
                    ELSE IF Len(trim(extractContent(pageTree))) > MAX_CONTENT_LENGTH
                    THEN FetchTagsCall(
                           showMsg(r1, "Contenu de la page tronque pour l'analyse des tags.",
                                   "info"), pageContent)
                    ELSE FetchTagsCall(r1, pageContent)]
  /\ UNCHANGED <<settings, pageTree>>

\* /tagpage, index.js:204-233 up to the await of the insertion
TagpageFetched(i, R) ==
  /\ inv[i].pc = "fetch" /\ inv[i].mode = "tagpage"
  /\ \E resp \in R :
       inv' = [inv EXCEPT ![i] =
                 SiblingRequest(Fetched(inv[i], resp), PageTagsLabel,
                                LastRootUuid(inv[i].pageBlocks))]
  /\ UNCHANGED <<settings, pageTree>>

\* /tagselect, index.js:241-248
TagselectCommand(i) ==
  /\ inv[i].pc = "idle"
  /\ \E uuid \in TopUuids(pageTree) :
       inv' = [inv EXCEPT ![i] =
                 CommandStart(inv[i], "tagselect", uuid,
                              "Generation des tags pour la selection...", "getSelection")]
  /\ UNCHANGED <<settings, pageTree>>

Selections == {Null, Some(<<>>), Some(<<" ">>), Some(<<" ", "a", "b">>)}

\* /tagselect, index.js:248-254
TagselectGotSelection(i) ==
  /\ inv[i].pc = "getSelection"
  /\ \E selection \in Selections :
       inv' = [inv EXCEPT ![i] =
                 LET r == [inv[i] EXCEPT !.selection = selection]
                 IN  IF selection.isNull \/ selection.v = <<>> \/ trim(selection.v) = <<>>
                     THEN Finish(r,
                            "Aucune selection de texte trouvee ou la selection est vide.",
                            "warning")
                     ELSE FetchTagsCall([r EXCEPT !.contentForAI = trim(selection.v)],
                                        trim(selection.v))]
  /\ UNCHANGED <<settings, pageTree>>

\* /tagselect, index.js:254-268 up to the await of insertBlock
TagselectFetched(i, R) ==
  /\ inv[i].pc = "fetch" /\ inv[i].mode = "tagselect"
  /\ \E resp \in R :
       inv' = [inv EXCEPT ![i] =
                 SiblingRequest(Fetched(inv[i], resp), SelectionTagsLabel, inv[i].uuid)]
  /\ UNCHANGED <<settings, pageTree>>

\* the host carries out the requested write (index.js:117, 120, 216, 221, 264)
ApplyRequest(tree, req) ==
  CASE req.op = "updateBlock" -> UpdateBlock(tree, req.uuid, req.content)
    [] req.op = "insertChild" -> InsertChild(tree, req.uuid, FreshUuid(tree), req.content)
    [] req.op = "insertSibling" -> InsertSibling(tree, req.uuid, FreshUuid(tree), req.content)
    [] req.op = "insertBatchBlock" -> InsertUnderPage(tree, FreshUuid(tree), req.content)
    [] OTHER -> tree

HostWrite(i) ==
  /\ inv[i].pc = "write"
  /\ \E done \in (IF inv[i].request.op = "insertBatchBlock" THEN BOOLEAN ELSE {TRUE}) :
       IF done
       THEN /\ pageTree' = ApplyRequest(pageTree, inv[i].request)
            /\ inv' = [inv EXCEPT ![i].writes = @ + 1, ![i].pc = "written"]
       ELSE \* index.js:226-229: insertBatchBlock rejected
            /\ pageTree' = pageTree
            /\ inv' = [inv EXCEPT ![i] =
                         Finish(inv[i], "Erreur lors de l'ajout des tags de page.", "error")]
  /\ UNCHANGED settings

\* index.js:118, 121, 217, 225, 265: the write has resolved
SuccessText(req) ==
  CASE req.op = "updateBlock" -> "Tags mis a jour dans le bloc enfant !"
    [] req.op = "insertChild" -> "Tags ajoutes dans un nouveau bloc enfant !"
    [] req.op = "insertBatchBlock" ->
         "Tags de la page ajoutes dans un nouveau bloc (methode de repli) !"
    [] OTHER -> "Tags ajoutes dans un nouveau bloc !"

\* success reported when the write is requested, without awaiting it
ShowSuccessNotAwaited(i) ==
  /\ inv[i].pc = "write"
  /\ inv' = [inv EXCEPT ![i] = Finish(inv[i], SuccessText(inv[i].request), "success")]
  /\ UNCHANGED <<settings, pageTree>>

ShowSuccess(i) ==
  /\ inv[i].pc = "written"
  /\ inv' = [inv EXCEPT ![i] = Finish(inv[i], SuccessText(inv[i].request), "success")]
  /\ UNCHANGED <<settings, pageTree>>

---------------------------------------------------------------------------
\* a command may start: always when invocations interleave, and when `solo`
\* only while no other invocation is in flight
Quiet(i) == \A j \in Procs \ {i} : inv[j].pc \in {"idle", "done"}
MayStart(i, solo) == solo => Quiet(i)

TagsStart(i, solo) == MayStart(i, solo) /\ TagsCommand(i)
TagpageStart(i, solo) == MayStart(i, solo) /\ TagpageCommand(i)
TagselectStart(i, solo) == MayStart(i, solo) /\ TagselectCommand(i)

Step(i, R, solo) ==
  \/ TagsStart(i, solo) \/ TagsGotBlock(i) \/ TagsFetched(i, R) \/ TagsGotChildren(i)
  \/ TagpageStart(i, solo) \/ TagpageGotPage(i) \/ TagpageGotTree(i)
  \/ TagpageFetched(i, R)
  \/ TagselectStart(i, solo) \/ TagselectGotSelection(i) \/ TagselectFetched(i, R)
  \/ HostWrite(i) \/ ShowSuccess(i)

\* any interleaving of the invocations
Next == \E i \in Procs : Step(i, Responses, FALSE)

Spec == Init /\ [][Next]_vars

\* one invocation at a time: a command starts when no other is in flight
NextSeq == \E i \in Procs : Step(i, Responses, TRUE)

SpecSeq == Init /\ [][NextSeq]_vars

\* one invocation, every reply text up to MaxLen
NextNorm == Step(1, NormResponses, TRUE)

SpecNorm == Init /\ [][NextNorm]_vars


(***************************************************************************)
(* Properties.                                                             *)
(***************************************************************************)
Statuses(r) == {r.msgs[k].status : k \in 1..Len(r.msgs)}
Succeeded(r) == "success" \in Statuses(r)
Ended(r) == r.pc = "done"
\* the notifications after the "generation in progress" one
Outcome(r) == Tail(r.msgs)

\* the texts of every block and child of the tree
AllContents(tree) ==
  {tree[k].content : k \in 1..Len(tree)}
    \cup UNION {{tree[k].children[c].content : c \in 1..Len(tree[k].children)}
                  : k \in 1..Len(tree)}
RECURSIVE ChildCount(_)
ChildCount(tree) ==
  IF tree = <<>> THEN 0 ELSE Len(tree[1].children) + ChildCount(Tail(tree))
\* the number of blocks of the tree, children included
NodeCount(tree) == Len(tree) + ChildCount(tree)

\* the children of block uuid whose text starts with "tags::", in order
TagsChildrenOf(tree, uuid) ==
  IF HasBlock(tree, uuid)
  THEN SelectSeq(GetBlock(tree, uuid).children, IsTagsChild)
  ELSE <<>>

---------------------------------------------------------------------------
\* C1: an invocation shows a success notification only once exactly one
\* document write of its own has completed, and an invocation that ended
\* without a success notification has written nothing.
C1_SuccessIffOneWrite ==
  \A i \in Procs :
    /\ inv[i].writes <= 1
    /\ Succeeded(inv[i]) => inv[i].writes = 1
    /\ (Ended(inv[i]) /\ ~Succeeded(inv[i])) => inv[i].writes = 0

\* a state where one invocation succeeded after its write and another failed
\* after its API call
C1_Witness ==
  \E i, j \in Procs :
    /\ Ended(inv[i]) /\ Succeeded(inv[i]) /\ inv[i].writes = 1
    /\ Ended(inv[j]) /\ ~Succeeded(inv[j]) /\ inv[j].fetches = 1

---------------------------------------------------------------------------
\* the credential is empty or made of white space only
BlankCredential == \A k \in 1..Len(settings) : IsSpace(settings[k])

\* C3: with an empty or white-space-only credential no invocation ever calls
\* the API or writes to the document: it ends at once with one error
\* notification and no tags.
C3_NoCallWithoutCredential ==
  BlankCredential =>
    /\ pageTree \in Pages
    /\ \A i \in Procs :
         /\ inv[i].fetches = 0 /\ inv[i].writes = 0 /\ inv[i].allTags.isNull
         /\ inv[i].pc \in {"idle", "done"}
         /\ Ended(inv[i]) =>
              /\ Len(Outcome(inv[i])) = 1
              /\ Outcome(inv[i])[1].status = "error"

\* a white-space-only credential, and two different commands have run
C3_Witness ==
  /\ settings = <<" ">>
  /\ \E i, j \in Procs :
       /\ Ended(inv[i]) /\ Ended(inv[j])
       /\ inv[i].mode = "tags" /\ inv[j].mode \in {"tagpage", "tagselect"}

---------------------------------------------------------------------------
\* every line of the text is blank or a property line
OnlyPropertyLines(content) ==
  LET lines == split(content, NL)
  IN  \A k \in 1..Len(lines) : trim(lines[k]) = <<>> \/ IsPropertyLine(lines[k])

\* the invocation read a credential that is not blank
HasCredential(r) == \E k \in 1..Len(r.apiKey) : ~IsSpace(r.apiKey[k])

\* invocation i has read a source that leaves nothing to analyze
NothingToAnalyze(i) ==
  LET r == inv[i]
  IN  \/ /\ r.mode = "tags" /\ r.pc \notin {"idle", "getBlock"} /\ HasCredential(r)
         /\ HasBlock(pageTree, r.uuid)
         /\ OnlyPropertyLines(GetBlock(pageTree, r.uuid).content)
      \/ /\ r.mode = "tagpage" /\ r.currentPage /\ r.pc # "getPageBlocksTree"
         /\ Len(r.pageBlocks) > 0
         /\ \A k \in 1..Len(r.pageBlocks) : OnlyPropertyLines(r.pageBlocks[k].content)
      \/ /\ r.mode = "tagselect" /\ r.pc \notin {"idle", "getSelection"}
         /\ HasCredential(r)
         /\ (r.selection.isNull \/ \A k \in 1..Len(r.selection.v) : IsSpace(r.selection.v[k]))

\* the invocation stopped with nothing extracted, no API call, no write and
\* one notification of the given status
AbortedEmpty(r, status) ==
  /\ Ended(r) /\ r.contentForAI = <<>>
  /\ r.fetches = 0 /\ r.writes = 0
  /\ Len(Outcome(r)) = 1 /\ Outcome(r)[1].status = status

---------------------------------------------------------------------------
\* the API replied with a text that normalizes to no tag
NoUsableTags(r) == ~r.allTags.isNull /\ UniqueTags(r.allTags.v) = <<>>

\* C4: an invocation that ended without success has emitted exactly one
\* notification for its failure, a warning when the reply held no usable tag.
C4_EveryFailureNotified ==
  \A i \in Procs :
    (Ended(inv[i]) /\ ~Succeeded(inv[i])) =>
      /\ Len(Outcome(inv[i])) = 1
      /\ NoUsableTags(inv[i]) => Outcome(inv[i])[1].status = "warning"

---------------------------------------------------------------------------
\* a success status whose body is no JSON or carries no string at
\* choices[0].message.content
MalformedBody(resp) ==
  \/ resp.kind = "bad_json"
  \/ resp.kind = "json" /\ (resp.type # "string" \/ resp.text = <<>>)

\* C8: every such response makes fetchTags fail with the warning for an
\* unexpected response format, and with no other notification.
C8_MalformedIsWarned ==
  \A i \in Procs :
    MalformedBody(inv[i].response) =>
      /\ inv[i].allTags.isNull
      /\ Outcome(inv[i]) = <<Msg("Format de reponse inattendu de DeepSeek.", "warning")>>

---------------------------------------------------------------------------
\* C9: a /tagpage invocation that found the page without top-level block has
\* inserted a "Page Tags:: ..." block under the page; one that found blocks
\* and succeeded has inserted it after the last of them.
C9_EmptyPageFallsBack ==
  \A i \in Procs :
    (inv[i].mode = "tagpage" /\ inv[i].currentPage /\ Ended(inv[i])) =>
      IF Len(inv[i].pageBlocks) = 0
      THEN /\ inv[i].writes = 1
           /\ inv[i].request.op = "insertBatchBlock"
           /\ startsWith(inv[i].request.content, PageTagsLabel)
      ELSE Succeeded(inv[i]) =>
             /\ inv[i].request.op = "insertSibling"
             /\ inv[i].request.uuid = LastRootUuid(inv[i].pageBlocks)

---------------------------------------------------------------------------
\* invocation i of /tags read no tags child and its insertion has been done
InsertedTagsChild(i) ==
  /\ inv[i].mode = "tags" /\ inv[i].pc \in {"written", "done"}
  /\ inv[i].tagsChildBlock = NoBlock /\ inv[i].request.op = "insertChild"

\* C10: two /tags invocations on the same block that both read its children
\* before either wrote both insert: the block then has two tags children.
C10_StaleReadsInsertTwice ==
  \A i, j \in Procs :
    (i # j /\ inv[i].uuid = inv[j].uuid /\ InsertedTagsChild(i) /\ InsertedTagsChild(j)) =>
      Len(TagsChildrenOf(pageTree, inv[i].uuid)) >= 2

\* both invocations succeeded on a block that now has exactly two tags children
C10_Witness ==
  \E i, j \in Procs :
    /\ i # j /\ inv[i].uuid = inv[j].uuid
    /\ InsertedTagsChild(i) /\ InsertedTagsChild(j)
    /\ Ended(inv[i]) /\ Succeeded(inv[i]) /\ Ended(inv[j]) /\ Succeeded(inv[j])
    /\ Len(TagsChildrenOf(pageTree, inv[i].uuid)) = 2

---------------------------------------------------------------------------
\* the step is the host write of a /tags invocation
TagsWriteStep(i) ==
  inv[i].mode = "tags" /\ inv[i].pc = "write" /\ inv'[i].pc = "written"

\* the child of block uuid with the given identifier
ChildrenWithUuid(tree, uuid, child) ==
  SelectSeq(GetBlock(tree, uuid).children, LAMBDA c : c.uuid = child)

\* C2, one placement: with a tags child under the target, its first tags child
\* gets the text "tags:: " + the TagSet joined with ", " and no node is
\* created; with none, exactly one child with that text is created.  From at
\* most one tags child the target ends with exactly one, holding that text.
PlacementStep(i) ==
  LET uuid == inv[i].uuid
      before == TagsChildrenOf(pageTree, uuid)
      after == TagsChildrenOf(pageTree', uuid)
      text == TagsLabel \o join(inv[i].uniqueTags, <<",", " ">>)
  IN  /\ IF Len(before) > 0
         THEN /\ NodeCount(pageTree') = NodeCount(pageTree)
              /\ ChildrenWithUuid(pageTree', uuid, before[1].uuid)
                   = <<[uuid |-> before[1].uuid, content |-> text]>>
         ELSE /\ NodeCount(pageTree') = NodeCount(pageTree) + 1
              /\ Len(GetBlock(pageTree', uuid).children)
                   = Len(GetBlock(pageTree, uuid).children) + 1
              /\ Len(after) = 1
      /\ Len(before) <= 1 => (Len(after) = 1 /\ after[1].content = text)

\* C2, between placements: no other step changes the tags children of a block.
OtherStep ==
  \A uuid \in TopUuids(pageTree) :
    TagsChildrenOf(pageTree', uuid) = TagsChildrenOf(pageTree, uuid)

\* C2: in runs where invocations do not overlap, every /tags placement
\* overwrites the existing tags child or inserts exactly one, so that a block
\* starting with at most one tags child keeps exactly one, with the text of
\* the most recent TagSet.
C2_BlockPlacementIdempotent ==
  [][ /\ \A i \in Procs : TagsWriteStep(i) => PlacementStep(i)
      /\ (\A i \in Procs : ~TagsWriteStep(i)) => OtherStep ]_vars

\* two successive /tags invocations on one block: the first inserted the tags
\* child, the second overwrote it with another TagSet, and it is the only one
C2_Witness ==
  \E i, j \in Procs :
    /\ i # j /\ inv[i].uuid = inv[j].uuid
    /\ inv[i].mode = "tags" /\ Ended(inv[i]) /\ inv[i].request.op = "insertChild"
    /\ inv[j].mode = "tags" /\ Ended(inv[j]) /\ inv[j].request.op = "updateBlock"
    /\ inv[i].uniqueTags # inv[j].uniqueTags
    /\ TagsChildrenOf(pageTree, inv[j].uuid)
         = <<[uuid |-> inv[j].request.uuid,
              content |-> TagsLabel \o inv[j].tagsStringForBlock]>>

---------------------------------------------------------------------------
\* the API replied with a text, which fetchTags parsed
Replied(r) == r.response.kind = "json" /\ ~r.allTags.isNull

QuoteAtAnEnd(s) == Len(s) > 0 /\ (IsQuote(s[1]) \/ IsQuote(s[Len(s)]))

---------------------------------------------------------------------------
\* the comma-separated tokens of a reply, trimmed and in upper case
FoldedTokens(text) ==
  LET pieces == split(StripQuotes(trim(text)), ",")
  IN  [k \in 1..Len(pieces) |-> toUpperCase(trim(pieces[k]))]

FirstAt(tokens, t) == Min({k \in 1..Len(tokens) : tokens[k] = t})

ModeLabel(mode) ==
  CASE mode = "tags" -> TagsLabel
    [] mode = "tagpage" -> PageTagsLabel
    [] OTHER -> SelectionTagsLabel

\* C6: the TagSet an invocation has written holds no entry twice, holds
\* exactly the non-empty folded tokens of the reply, in the order of their
\* first occurrence, and is in the document joined with ", " after the label
\* of the mode.
C6_WrittenTagsUnique ==
  \A i \in Procs :
    inv[i].pc \in {"written", "done"} /\ inv[i].writes = 1 =>
      LET T == inv[i].uniqueTags
          tokens == FoldedTokens(inv[i].response.text)
      IN  /\ \A a, b \in 1..Len(T) : a # b => T[a] # T[b]
          /\ Range(T) = Range(tokens) \ {<<>>}
          /\ \A a, b \in 1..Len(T) :
               a < b => FirstAt(tokens, T[a]) < FirstAt(tokens, T[b])
          /\ inv[i].request.content = ModeLabel(inv[i].mode) \o join(T, <<",", " ">>)
          /\ inv[i].request.content \in AllContents(pageTree)

\* the reply "AI, Tech, AI" has been written as AI, TECH
C6_Witness ==
  \E i \in Procs :
    /\ inv[i].response.text = ReplyAITech
    /\ Ended(inv[i]) /\ Succeeded(inv[i])
    /\ inv[i].uniqueTags = << <<"A", "I">>, <<"T", "E", "C", "H">> >>

=============================================================================
